---- MODULE Spec2Model ----
(***************************************************************************)
(* State-machine model of VectorIndexHostObject                            *)
(* (modules/expo-vector-search/cpp/ExpoVectorSearch.h): the JS host        *)
(* thread calling the host object's properties and methods, and the one    *)
(* detached worker thread that addBatch / loadVectorsFromFile spawn.       *)
(*                                                                         *)
(* Atomicity.  Every synchronous method body that touches _index runs      *)
(* under std::lock_guard(_mutex); the worker takes the same mutex once per *)
(* item.  One worker critical section is one action, one host call is one  *)
(* action.  The unlocked prologues of addBatch / loadVectorsFromFile run   *)
(* only when _isIndexing is false, i.e. when no live worker can touch the  *)
(* object any more, so they are folded into the host action as well.       *)
(* The worker's unlocked stores (_isIndexing = false) are separate steps.  *)
(***************************************************************************)
EXTENDS Integers, Sequences, FiniteSets, TLC

\* ---------------------------------------------------------------- bounds
MaxKey == 1
MaxBatch == 2

\* ------------------------------------------------------ program constants
InitialCapacity == 100
BatchSlack == 100
Dims == 2

Keys == 0..MaxKey
Vecs == {1, 2}
NoVec == 0

VARIABLES
  index,        \* _index: [alive, vecs, cap]; alive = FALSE is the reset pointer
  isIndexing,   \* _isIndexing
  cur,          \* _currentIndexingCount
  total,        \* _totalIndexingCount
  lastResult,   \* _lastResult: [count, error]
  workers,      \* the detached threads alive: each [pc, kind, keys, vectors, n, i,
                \* caller]; caller is what the arrays given to the call hold now
  crashed,      \* the process was killed by a null dereference
  deref,        \* the threads that have dereferenced the reset _index
  aux,          \* history of the latest task, read by the properties only
  promises      \* the promises of the wrapper class: [pending, settled]

vars == <<index, isIndexing, cur, total, lastResult, workers, crashed, deref, aux,
          promises>>

\* ------------------------------------------------------------ index model
EmptyVecs == [k \in {} |-> NoVec]

NullIndex == [alive |-> FALSE, vecs |-> EmptyVecs, cap |-> 0]

size(ix) == Cardinality(DOMAIN ix.vecs)

contains(ix, key) == key \in DOMAIN ix.vecs

\* index_dense_t::add as the wrapper configures it (single-vector keys):
\* refused when the key is live or when no slot is left.
addOk(ix, key) == ~contains(ix, key) /\ size(ix) < ix.cap

\* An add that overwrites the slot of a live key.
indexAddOverwrites(ix, key, vec) ==
  IF contains(ix, key) \/ size(ix) < ix.cap
    THEN [ix EXCEPT !.vecs = [k \in DOMAIN ix.vecs \cup {key} |->
                                 IF k = key THEN vec ELSE ix.vecs[k]]]
    ELSE ix

indexAdd(ix, key, vec) ==
  IF addOk(ix, key)
    THEN [ix EXCEPT !.vecs = [k \in DOMAIN ix.vecs \cup {key} |->
                                 IF k = key THEN vec ELSE ix.vecs[k]]]
    ELSE ix

\* index_dense_t::remove: a missing key removes nothing and is no error.
indexRemove(ix, key) ==
  [ix EXCEPT !.vecs = [k \in DOMAIN ix.vecs \ {key} |-> ix.vecs[k]]]

reserve(ix, n) == [ix EXCEPT !.cap = IF n > ix.cap THEN n ELSE ix.cap]

\* ------------------------------------------------------------- arguments
\* A Float32Array argument: the state of its ArrayBuffer, its element count
\* (byteLength / 4) and the vectors it holds.
GoodArgs == {[buf |-> "ok", len |-> Dims, vs |-> <<v>>] : v \in Vecs}

BadArgs == {[buf |-> "misaligned", len |-> Dims, vs |-> <<1>>],
            [buf |-> "empty", len |-> 0, vs |-> <<>>],
            [buf |-> "ok", len |-> Dims + 1, vs |-> <<1>>]}

VecArgs == GoodArgs \cup BadArgs

\* The calls of add and update: every key with every well-formed vector,
\* and key 0 with each malformed one.
PointCalls ==
  {[key |-> key, arg |-> arg] : key \in Keys, arg \in GoodArgs}
    \cup {[key |-> 0, arg |-> arg] : arg \in BadArgs}

SeqsUpTo(S, n) == UNION {[1..m -> S] : m \in 0..n}

\* The vectors of a batch or of a raw file: consecutive vectors differ.
VecSeqs(n) == {vs \in SeqsUpTo(Vecs, n) : \A i \in 1..(Len(vs) - 1) : vs[i] # vs[i + 1]}

\* The calls of addBatch: every well-formed pair, and one-key calls whose
\* vectors argument is misaligned, empty, one float long or one float short.
BatchCalls ==
  {[keys |-> keys, arg |-> [buf |-> "ok", len |-> Len(vs) * Dims, vs |-> vs]] :
      keys \in SeqsUpTo(Keys, MaxBatch), vs \in VecSeqs(MaxBatch)}
    \cup {[keys |-> <<0>>, arg |-> arg] :
            arg \in {[buf |-> "misaligned", len |-> Dims, vs |-> <<1>>],
                     [buf |-> "empty", len |-> 0, vs |-> <<>>],
                     [buf |-> "ok", len |-> Dims + 1, vs |-> <<1>>],
                     [buf |-> "ok", len |-> Dims - 1, vs |-> <<>>]}}

\* A path is a sequence of tokens; the file names are "a" and "a..b".
Paths == {<<"a">>, <<"file://", "a">>, <<"..", "a">>, <<"file://", "..", "a">>,
          <<"a..b">>}

\* A raw vector file given to loadVectorsFromFile: present or not, and its
\* size as whole vectors plus trailing bytes.
RawFiles ==
  {[exists |-> TRUE, vs |-> vs, extraBytes |-> 0] : vs \in VecSeqs(MaxBatch)}
    \cup {[exists |-> TRUE, vs |-> <<1>>, extraBytes |-> 4],
          [exists |-> FALSE, vs |-> <<>>, extraBytes |-> 0]}

\* The index files load() may be given: any file save() can have written,
\* or none.
IndexFiles ==
  {[exists |-> TRUE, vecs |-> f] : f \in UNION {[ks -> Vecs] : ks \in SUBSET Keys}}
    \cup {[exists |-> FALSE, vecs |-> EmptyVecs]}

\* The calls of load: every file under a plain path, one under each other.
IndexLoadCalls ==
  {[path |-> <<"a">>, file |-> file] : file \in IndexFiles}
    \cup {[path |-> path, file |-> [exists |-> TRUE, vecs |-> EmptyVecs]] : path \in Paths}

\* The calls of loadVectorsFromFile: every file under a plain path, and one
\* file under each other path.
LoadCalls ==
  {[path |-> <<"a">>, file |-> file] : file \in RawFiles}
    \cup {[path |-> path, file |-> [exists |-> TRUE, vs |-> <<1>>, extraBytes |-> 0]] :
            path \in Paths}

\* A getRawVector that does not test the address.
getRawVectorNoAlignment(arg) == IF arg.buf = "empty" THEN "buffer" ELSE "ok"

getRawVector(arg) ==
  CASE arg.buf = "empty" -> "buffer"
    [] arg.buf = "misaligned" -> "buffer"
    [] OTHER -> "ok"

\* path.find(".."): the tokens that hold two consecutive dots.
hasDotDot(token) == token \in {"..", "a..b"}

\* A normalizePath that strips the prefix and tests nothing.
normalizePathNoTraversalTest(path) ==
  IF Len(path) > 0 /\ Head(path) = "file://" THEN Tail(path) ELSE path

normalizePath(path) ==
  LET stripped == IF Len(path) > 0 /\ Head(path) = "file://" THEN Tail(path) ELSE path
  IN  IF \E i \in 1..Len(stripped) : hasDotDot(stripped[i])
        THEN <<"security">>
        ELSE stripped

\* ----------------------------------------------------------- worker model
\* kind: the method that started the latest task; fresh: no host call since
\* that method returned; base: the keys the index held when the task
\* started, kept (clean = TRUE) while the task runs and no mutator is called.
\* cancelled: delete() was called before the latest task had left its loop;
\* n: the item count the task was started with; addsOnly: the task runs and
\* the host has called no mutator but add and update since it started.
NoAux == [kind |-> "none", fresh |-> FALSE, clean |-> FALSE, base |-> {},
          cancelled |-> FALSE, n |-> 0, addsOnly |-> FALSE]

\* The host made a call.
Moved(a) == [a EXCEPT !.fresh = FALSE]

\* The host called a mutator.
Mutated(a) == [a EXCEPT !.fresh = FALSE, !.clean = FALSE, !.base = {},
                        !.addsOnly = FALSE]

\* The host called add or update.
Inserted(a) == [a EXCEPT !.fresh = FALSE, !.clean = FALSE, !.base = {}]

Started(kind, ix, n) == [kind |-> kind, fresh |-> TRUE, clean |-> TRUE,
                         base |-> DOMAIN ix.vecs, cancelled |-> FALSE, n |-> n,
                         addsOnly |-> TRUE]

\* The task's thread has ended.
Ended(a) == [a EXCEPT !.clean = FALSE, !.base = {}, !.addsOnly = FALSE]

Running == Len(workers) > 0

\* pending: the promises whose _waitForOperation has a timer set, each with
\* the item count n of the operation it was returned for, oldest first;
\* settled: how the latest promise to settle has settled, and whether its
\* call had started a task.
NoPromises == [pending |-> <<>>,
               settled |-> [outcome |-> "none", task |-> FALSE, n |-> 0, value |-> 0]]

\* A thread has not reached the end of its loop yet.
InLoop == \E w \in 1..Len(workers) : workers[w].pc \in {"read", "reserve", "loop"}

RemoveAt(s, w) == [j \in 1..(Len(s) - 1) |-> IF j < w THEN s[j] ELSE s[j + 1]]

Init ==
  /\ index = [alive |-> TRUE, vecs |-> EmptyVecs, cap |-> InitialCapacity]
  /\ isIndexing = FALSE
  /\ cur = 0
  /\ total = 0
  /\ lastResult = [count |-> 0, error |-> ""]
  /\ workers = <<>>
  /\ crashed = FALSE
  /\ deref = {}
  /\ aux = NoAux
  /\ promises = NoPromises


\* ------------------------------------------------------- worker (addBatch)
\* A worker that takes the keys from the far end of its copy.
batchKeyReversed(wk) == wk.keys[wk.n - wk.i]

\* keys[i], the key of the item the loop is at
batchKey(wk) == wk.keys[wk.i + 1]

\* A worker that reads the item's vector from the caller's array.
batchVectorBorrowed(wk) == wk.caller.vectors[wk.i + 1]

\* vectors.data() + (i * dims), the vector of the item the loop is at
batchVector(wk) == wk.vectors[wk.i + 1]

\* The index after the items i+1..n of a batch have been inserted in turn.
RECURSIVE insertedFrom(_, _, _)
insertedFrom(ix, wk, i) ==
  IF i >= wk.n THEN ix
  ELSE insertedFrom(indexAdd(ix, wk.keys[i + 1], wk.vectors[i + 1]), wk, i + 1)

\* A worker that takes the mutex once, around its whole loop.
BatchItemHoldsLock(w) ==
  LET wk == workers[w]
  IN  /\ ~crashed
      /\ promises' = promises
      /\ wk.kind = "batch"
      /\ wk.pc = "loop"
      /\ index' = IF index.alive THEN insertedFrom(index, wk, wk.i) ELSE index
      /\ cur' = IF index.alive THEN cur + (wk.n - wk.i) ELSE cur
      /\ workers' = [workers EXCEPT ![w].i = IF index.alive THEN wk.n ELSE wk.i,
                                    ![w].pc = "finish"]
      /\ UNCHANGED <<isIndexing, total, lastResult, crashed, deref, aux>>

\* One iteration of the worker loop of addBatch, under the mutex.  add
\* reports a refusal through its result; nothing in the loop throws.
BatchItem(w) ==
  LET wk == workers[w]
      key == batchKey(wk)
      vec == batchVector(wk)
  IN  /\ ~crashed
      /\ promises' = promises
      /\ wk.kind = "batch"
      /\ wk.pc = "loop"
      /\ IF ~index.alive
           THEN \* break: leaves the loop for the epilogue
                /\ workers' = [workers EXCEPT ![w].pc = "finish"]
                /\ UNCHANGED <<index, isIndexing, cur, lastResult, aux>>
           ELSE IF addOk(index, key)
             THEN /\ index' = indexAdd(index, key, vec)
                  /\ cur' = cur + 1
                  /\ workers' = [workers EXCEPT
                                   ![w].i = wk.i + 1,
                                   ![w].pc = IF wk.i + 1 < wk.n THEN "loop" ELSE "finish"]
                  /\ UNCHANGED <<isIndexing, lastResult, aux>>
             ELSE \* the add was refused: record the error and return
                  /\ lastResult' = [lastResult EXCEPT !.error = "add_failed"]
                  /\ isIndexing' = FALSE
                  /\ workers' = RemoveAt(workers, w)
                  /\ aux' = Ended(aux)
                  /\ UNCHANGED <<index, cur>>
      /\ UNCHANGED <<total, crashed, deref>>

\* A worker that clears _isIndexing before it stores the result.
BatchFinishClearsFirst(w) ==
  LET wk == workers[w]
  IN  /\ ~crashed
      /\ promises' = promises
      /\ wk.kind = "batch"
      /\ wk.pc = "finish"
      /\ IF isIndexing
           THEN /\ isIndexing' = FALSE
                /\ UNCHANGED <<lastResult, workers>>
           ELSE /\ lastResult' = [count |-> wk.n, error |-> ""]
                /\ workers' = [workers EXCEPT ![w].pc = "clear"]
                /\ UNCHANGED isIndexing
      /\ UNCHANGED <<index, cur, total, crashed, deref, aux>>

\* After the loop: the result is stored under the mutex.
BatchFinish(w) ==
  LET wk == workers[w]
  IN  /\ ~crashed
      /\ promises' = promises
      /\ wk.kind = "batch"
      /\ wk.pc = "finish"
      /\ lastResult' = [count |-> wk.n, error |-> ""]
      /\ workers' = [workers EXCEPT ![w].pc = "clear"]
      /\ UNCHANGED <<index, isIndexing, cur, total, crashed, deref, aux>>

\* The last statement of the thread, outside the mutex.
BatchClear(w) ==
  LET wk == workers[w]
  IN  /\ ~crashed
      /\ promises' = promises
      /\ wk.kind = "batch"
      /\ wk.pc = "clear"
      /\ isIndexing' = FALSE
      /\ workers' = RemoveAt(workers, w)
      /\ aux' = Ended(aux)
      /\ UNCHANGED <<index, cur, total, lastResult, crashed, deref>>

\* ------------------------------------------- worker (loadVectorsFromFile)
\* Opens the file and allocates the buffer; the allocation may throw.
LoadRead(w) ==
  LET wk == workers[w]
  IN  /\ ~crashed
      /\ promises' = promises
      /\ wk.kind = "load"
      /\ wk.pc = "read"
      /\ \E thrown \in BOOLEAN :
           workers' = [workers EXCEPT ![w].pc = IF thrown THEN "caught" ELSE "reserve"]
      /\ UNCHANGED <<index, isIndexing, cur, total, lastResult, crashed, deref, aux>>

\* The reserve block, under the mutex.
LoadReserve(w) ==
  LET wk == workers[w]
  IN  /\ ~crashed
      /\ promises' = promises
      /\ wk.kind = "load"
      /\ wk.pc = "reserve"
      /\ IF ~index.alive
           THEN \* return: the thread ends here
                /\ workers' = RemoveAt(workers, w)
                /\ aux' = Ended(aux)
                /\ UNCHANGED index
           ELSE /\ index' = IF size(index) + wk.n > index.cap
                              THEN reserve(index, size(index) + wk.n + BatchSlack)
                              ELSE index
                /\ workers' = [workers EXCEPT
                                 ![w].pc = IF wk.n > 0 THEN "loop" ELSE "finish"]
                /\ UNCHANGED aux
      /\ UNCHANGED <<isIndexing, cur, total, lastResult, crashed, deref>>

\* One iteration of the worker loop of loadVectorsFromFile, under the mutex.
\* The loop does not test _index: on a reset pointer the call is undefined,
\* and the process either dies or the call returns having done nothing.
LoadItem(w) ==
  LET wk == workers[w]
      key == wk.i
      vec == wk.vectors[wk.i + 1]
      next == [workers EXCEPT ![w].i = wk.i + 1,
                              ![w].pc = IF wk.i + 1 < wk.n THEN "loop" ELSE "finish"]
  IN  /\ ~crashed
      /\ promises' = promises
      /\ wk.kind = "load"
      /\ wk.pc = "loop"
      /\ IF ~index.alive
           THEN /\ deref' = deref \cup {"worker"}
                /\ \/ /\ crashed' = TRUE
                      /\ UNCHANGED <<workers, cur>>
                   \/ /\ crashed' = FALSE
                      /\ workers' = next
                      /\ cur' = cur + 1
                /\ UNCHANGED index
           ELSE /\ index' = indexAdd(index, key, vec)
                /\ cur' = cur + 1
                /\ workers' = next
                /\ UNCHANGED <<crashed, deref>>
      /\ UNCHANGED <<isIndexing, total, lastResult, aux>>

LoadFinish(w) ==
  LET wk == workers[w]
  IN  /\ ~crashed
      /\ promises' = promises
      /\ wk.kind = "load"
      /\ wk.pc = "finish"
      /\ lastResult' = [count |-> wk.n, error |-> ""]
      /\ workers' = [workers EXCEPT ![w].pc = "clear"]
      /\ UNCHANGED <<index, isIndexing, cur, total, crashed, deref, aux>>

\* The catch block, under the mutex.
LoadCaught(w) ==
  LET wk == workers[w]
  IN  /\ ~crashed
      /\ promises' = promises
      /\ wk.kind = "load"
      /\ wk.pc = "caught"
      /\ lastResult' = [lastResult EXCEPT !.error = "exception"]
      /\ workers' = [workers EXCEPT ![w].pc = "clear"]
      /\ UNCHANGED <<index, isIndexing, cur, total, crashed, deref, aux>>

LoadClear(w) ==
  LET wk == workers[w]
  IN  /\ ~crashed
      /\ promises' = promises
      /\ wk.kind = "load"
      /\ wk.pc = "clear"
      /\ isIndexing' = FALSE
      /\ workers' = RemoveAt(workers, w)
      /\ aux' = Ended(aux)
      /\ UNCHANGED <<index, cur, total, lastResult, crashed, deref>>


\* ------------------------------------------------------- host: properties
\* What each call returns is an operator of the state and the arguments:
\* "ok" for a returned value, else the error thrown.  The host action of the
\* call applies that outcome.
Quantized == FALSE

\* get("dimensions"): _index is dereferenced without a null test; on a reset
\* pointer the process dies or the read yields garbage.
dimensionsResults == IF index.alive THEN {"ok"} ELSE {"crash", "garbage"}

GetDimensions ==
  /\ ~crashed
  /\ promises' = promises
  /\ \E r \in dimensionsResults :
       /\ crashed' = (r = "crash")
       /\ deref' = IF r = "ok" THEN deref ELSE deref \cup {"host"}
  /\ aux' = Moved(aux)
  /\ UNCHANGED <<index, isIndexing, cur, total, lastResult, workers>>

countResult == "ok"

countValue == IF index.alive THEN size(index) ELSE 0

GetCount ==
  /\ ~crashed
  /\ promises' = promises
  /\ aux' = Moved(aux)
  /\ UNCHANGED <<index, isIndexing, cur, total, lastResult, workers, crashed, deref>>

memoryUsageResult == "ok"

memoryUsageValue ==
  IF ~index.alive
    THEN 0
    ELSE size(index) * Dims * (IF Quantized THEN 1 ELSE 4)
           + size(index) * (64 + 32 * 4) + 1024 * 1024

GetMemoryUsage ==
  /\ ~crashed
  /\ promises' = promises
  /\ aux' = Moved(aux)
  /\ UNCHANGED <<index, isIndexing, cur, total, lastResult, workers, crashed, deref>>

isaResult == "ok"

isaValue == IF index.alive THEN "serial" ELSE "unknown"

GetIsa ==
  /\ ~crashed
  /\ promises' = promises
  /\ aux' = Moved(aux)
  /\ UNCHANGED <<index, isIndexing, cur, total, lastResult, workers, crashed, deref>>

GetIsIndexing ==
  /\ ~crashed
  /\ promises' = promises
  /\ aux' = Moved(aux)
  /\ UNCHANGED <<index, isIndexing, cur, total, lastResult, workers, crashed, deref>>

indexingProgressResult == "ok"

\* percentage is a quotient of two integers, kept as the pair num / den.
indexingProgressValue ==
  [current |-> cur, total |-> total,
   percentage |-> IF total > 0 THEN [num |-> cur, den |-> total]
                               ELSE [num |-> 0, den |-> 1]]

GetIndexingProgress ==
  /\ ~crashed
  /\ promises' = promises
  /\ aux' = Moved(aux)
  /\ UNCHANGED <<index, isIndexing, cur, total, lastResult, workers, crashed, deref>>

\* getLastResult(): re-raises a stored error once, else returns the count.
getLastResultResult == IF lastResult.error # "" THEN lastResult.error ELSE "ok"

getLastResultValue == lastResult.count

\* A getLastResult that re-raises the stored error and keeps it.
GetLastResultKeepsError ==
  /\ ~crashed
  /\ aux' = Moved(aux)
  /\ UNCHANGED <<index, isIndexing, cur, total, lastResult, workers, crashed, deref>>

GetLastResult ==
  /\ ~crashed
  /\ lastResult' = [lastResult EXCEPT !.error = ""]
  /\ aux' = Moved(aux)
  /\ UNCHANGED <<index, isIndexing, cur, total, workers, crashed, deref>>

\* ---------------------------------------------------------- host: methods
deleteResult == "ok"

\* A delete that calls through the pointer it is about to reset.
DeleteDereferences ==
  /\ ~crashed
  /\ promises' = promises
  /\ index' = NullIndex
  /\ crashed' = ~index.alive
  /\ deref' = IF index.alive THEN deref ELSE deref \cup {"host"}
  /\ aux' = [Mutated(aux) EXCEPT !.cancelled = @ \/ InLoop]
  /\ UNCHANGED <<isIndexing, cur, total, lastResult, workers>>

Delete ==
  /\ ~crashed
  /\ promises' = promises
  /\ index' = NullIndex
  /\ aux' = [Mutated(aux) EXCEPT !.cancelled = @ \/ InLoop]
  /\ UNCHANGED <<isIndexing, cur, total, lastResult, workers, crashed, deref>>

grown(ix) ==
  IF size(ix) >= ix.cap
    THEN reserve(ix, IF ix.cap * 2 = 0 THEN InitialCapacity ELSE ix.cap * 2)
    ELSE ix

addResult(key, arg) ==
  IF getRawVector(arg) # "ok" THEN getRawVector(arg)
  ELSE IF ~index.alive THEN "deleted"
  ELSE IF arg.len # Dims THEN "dimension"
  ELSE IF addOk(grown(index), key) THEN "ok"
  ELSE "error"

Add(key, arg) ==
  /\ ~crashed
  /\ promises' = promises
  /\ index' = IF addResult(key, arg) \in {"ok", "error"}
                THEN indexAdd(grown(index), key, arg.vs[1])
                ELSE index
  /\ aux' = Inserted(aux)
  /\ UNCHANGED <<isIndexing, cur, total, lastResult, workers, crashed, deref>>

removeResult(key) == IF ~index.alive THEN "deleted" ELSE "ok"

Remove(key) ==
  /\ ~crashed
  /\ promises' = promises
  /\ index' = IF removeResult(key) = "ok" THEN indexRemove(index, key) ELSE index
  /\ aux' = Mutated(aux)
  /\ UNCHANGED <<isIndexing, cur, total, lastResult, workers, crashed, deref>>

updateResult(key, arg) ==
  IF getRawVector(arg) # "ok" THEN getRawVector(arg)
  ELSE IF ~index.alive THEN "deleted"
  ELSE IF arg.len # Dims THEN "dimension"
  ELSE IF addOk(indexRemove(index, key), key) THEN "ok"
  ELSE "error"

\* An update that removes the key before it tests the dimension.
UpdateRemovesFirst(key, arg) ==
  /\ ~crashed
  /\ promises' = promises
  /\ index' = IF updateResult(key, arg) \in {"ok", "error"}
                THEN indexAdd(indexRemove(index, key), key, arg.vs[1])
                ELSE IF updateResult(key, arg) = "dimension"
                  THEN indexRemove(index, key)
                  ELSE index
  /\ aux' = Inserted(aux)
  /\ UNCHANGED <<isIndexing, cur, total, lastResult, workers, crashed, deref>>

Update(key, arg) ==
  /\ ~crashed
  /\ promises' = promises
  /\ index' = IF updateResult(key, arg) \in {"ok", "error"}
                THEN indexAdd(indexRemove(index, key), key, arg.vs[1])
                ELSE index
  /\ aux' = Inserted(aux)
  /\ UNCHANGED <<isIndexing, cur, total, lastResult, workers, crashed, deref>>

searchResult(arg) ==
  IF getRawVector(arg) # "ok" THEN getRawVector(arg)
  ELSE IF ~index.alive THEN "deleted"
  ELSE IF arg.len # Dims THEN "dimension"
  ELSE "ok"

\* The options argument of search: allowedKeys absent, a JS array, or a
\* typed array, and the keys it lists.
Filters ==
  {[form |-> "none", keys |-> {}]}
    \cup {[form |-> f, keys |-> ks] :
            f \in {"array", "int32", "uint32"}, ks \in SUBSET Keys}

\* The result counts search is asked for.
Counts == 0..(MaxKey + 2)

\* hasFilter: set only when allowedKeys is a JS array (isArray).
hasFilter(filter) == filter.form = "array"

\* The metric, on the model's vectors.
distance(a, b) == IF a = b THEN 0 ELSE 1

\* The keys the search may emit: all live keys, or with a filter those the
\* predicate given to search_filtered accepts.
candidatesOf(ix, filter) ==
  {key \in DOMAIN ix.vecs : hasFilter(filter) => key \in filter.keys}

candidates(filter) == candidatesOf(index, filter)

Min(a, b) == IF a < b THEN a ELSE b

\* A search that returns the nearest candidates in any order.
searchValuesUnsorted(arg, count, filter) ==
  {r \in [1..Min(count, Cardinality(candidates(filter))) -> candidates(filter)] :
     /\ \A i, j \in DOMAIN r : r[i] = r[j] => i = j
     /\ \A key \in candidates(filter) :
          (\A i \in DOMAIN r : r[i] # key) =>
            \A i \in DOMAIN r :
              distance(arg.vs[1], index.vecs[r[i]]) <= distance(arg.vs[1], index.vecs[key])}

\* What search returns: the nearest candidates, nearest first, as many as
\* asked for when there are that many; equally near keys come in any order.
searchValuesOf(ix, arg, count, filter) ==
  {r \in [1..Min(count, Cardinality(candidatesOf(ix, filter))) -> candidatesOf(ix, filter)] :
     /\ \A i, j \in DOMAIN r : r[i] = r[j] => i = j
     /\ \A i, j \in DOMAIN r :
          i < j => distance(arg.vs[1], ix.vecs[r[i]]) <= distance(arg.vs[1], ix.vecs[r[j]])
     /\ \A key \in candidatesOf(ix, filter) :
          (\A i \in DOMAIN r : r[i] # key) =>
            \A i \in DOMAIN r :
              distance(arg.vs[1], ix.vecs[r[i]]) <= distance(arg.vs[1], ix.vecs[key])}

\* search on this object's index
searchValues(arg, count, filter) == searchValuesOf(index, arg, count, filter)

Search(arg) ==
  /\ ~crashed
  /\ promises' = promises
  /\ aux' = Moved(aux)
  /\ UNCHANGED <<index, isIndexing, cur, total, lastResult, workers, crashed, deref>>

getItemVectorResult(key) == IF ~index.alive THEN "deleted" ELSE "ok"

getItemVectorValue(key) == IF contains(index, key) THEN index.vecs[key] ELSE NoVec

GetItemVector(key) ==
  /\ ~crashed
  /\ promises' = promises
  /\ aux' = Moved(aux)
  /\ UNCHANGED <<index, isIndexing, cur, total, lastResult, workers, crashed, deref>>

saveResult(path) ==
  IF normalizePath(path) = <<"security">> THEN "security"
  ELSE IF ~index.alive THEN "deleted"
  ELSE "ok"

\* A save that leaves out the entry of the largest live key.
savedImageTruncated(ix) ==
  [exists |-> TRUE,
   vecs |-> [k \in {j \in DOMAIN ix.vecs : \E l \in DOMAIN ix.vecs : l > j} |-> ix.vecs[k]]]

\* What save() writes: the live entries.
savedImage(ix) == [exists |-> TRUE, vecs |-> ix.vecs]

\* save(): writes the file and leaves the object as it was.  The file system
\* is outside the object: the files load() reads are arguments of Load.
Save(path) ==
  /\ ~crashed
  /\ promises' = promises
  /\ aux' = Moved(aux)
  /\ UNCHANGED <<index, isIndexing, cur, total, lastResult, workers, crashed, deref>>

loadResult(path, file) ==
  IF normalizePath(path) = <<"security">> THEN "security"
  ELSE IF ~index.alive THEN "deleted"
  ELSE IF ~file.exists THEN "io"
  ELSE "ok"

\* What load() makes of a file: the file's entries, with room for exactly
\* those.
loadedIndex(file) ==
  [alive |-> TRUE, vecs |-> file.vecs, cap |-> Cardinality(DOMAIN file.vecs)]

Load(path, file) ==
  /\ ~crashed
  /\ promises' = promises
  /\ index' = IF loadResult(path, file) = "ok" THEN loadedIndex(file) ELSE index
  /\ aux' = Mutated(aux)
  /\ UNCHANGED <<isIndexing, cur, total, lastResult, workers, crashed, deref>>

\* --------------------------------------------------- host: background ops
\* A gate that never reports a running task.
neverBusy == FALSE

\* The busy gates: a plain read of _isIndexing.
addBatchBusy == isIndexing

loadBusy == isIndexing

\* batchCount = vecTotalElements / dims
batchCount(arg) == arg.len \div Dims

\* A start that spawns the thread without raising the flag.
flagLeftDown == FALSE

\* _isIndexing = true, stored before the thread is spawned
flagAtStart == TRUE

\* An addBatch that leaves _currentIndexingCount as the last task left it.
currentKept == cur

currentAtStart == 0

addBatchResult(keys, arg) ==
  IF ~index.alive THEN "deleted"
  ELSE IF addBatchBusy THEN "busy"
  ELSE IF getRawVector(arg) # "ok" THEN getRawVector(arg)
  ELSE IF batchCount(arg) # Len(keys) THEN "buffer"
  ELSE "ok"

\* An addBatch that resets the progress counters before its gates.
AddBatchResetsFirst(keys, arg) ==
  /\ ~crashed
  /\ IF addBatchResult(keys, arg) # "ok"
       THEN /\ cur' = 0
            /\ total' = 0
            /\ aux' = Moved(aux)
            /\ UNCHANGED <<index, isIndexing, workers>>
       ELSE LET n == batchCount(arg)
            IN  /\ index' = IF size(index) + n > index.cap
                              THEN reserve(index, size(index) + n + BatchSlack)
                              ELSE index
                /\ isIndexing' = flagAtStart
                /\ cur' = 0
                /\ total' = n
                /\ workers' = Append(workers,
                     [pc |-> IF n > 0 THEN "loop" ELSE "finish", kind |-> "batch",
                      keys |-> keys, vectors |-> SubSeq(arg.vs, 1, n),
                      n |-> n, i |-> 0,
                      caller |-> [keys |-> keys, vectors |-> arg.vs]])
                /\ aux' = Started("batch", index, n)
  /\ UNCHANGED <<lastResult, crashed, deref>>

AddBatch(keys, arg) ==
  /\ ~crashed
  /\ IF addBatchResult(keys, arg) # "ok"
       THEN /\ aux' = Moved(aux)
            /\ UNCHANGED <<index, isIndexing, cur, total, workers>>
       ELSE LET n == batchCount(arg)
            IN  /\ index' = IF size(index) + n > index.cap
                              THEN reserve(index, size(index) + n + BatchSlack)
                              ELSE index
                /\ isIndexing' = flagAtStart
                /\ cur' = currentAtStart
                /\ total' = n
                /\ workers' = Append(workers,
                     [pc |-> IF n > 0 THEN "loop" ELSE "finish", kind |-> "batch",
                      keys |-> keys, vectors |-> SubSeq(arg.vs, 1, n),
                      n |-> n, i |-> 0,
                      caller |-> [keys |-> keys, vectors |-> arg.vs]])
                /\ aux' = Started("batch", index, n)
  /\ UNCHANGED <<lastResult, crashed, deref>>

\* The host program overwrites the arrays it gave to addBatch, after the
\* call has returned: every key and every vector gets another value.  The
\* object is not called.
CallerWrites(w) ==
  LET wk == workers[w]
  IN  /\ ~crashed
      /\ promises' = promises
      /\ wk.kind = "batch"
      /\ wk.caller = [keys |-> wk.keys, vectors |-> wk.vectors]
      /\ Len(wk.keys) > 0
      /\ workers' = [workers EXCEPT ![w].caller =
                       [keys |-> [j \in DOMAIN wk.keys |-> (wk.keys[j] + 1) % (MaxKey + 1)],
                        vectors |-> [j \in DOMAIN wk.vectors |->
                                       CHOOSE v \in Vecs : v # wk.vectors[j]]]]
      /\ UNCHANGED <<index, isIndexing, cur, total, lastResult, crashed, deref, aux>>

\* size of the file in bytes, as tellg() at the end reports it
fileSize(file) == Len(file.vs) * Dims * 4 + file.extraBytes

\* The outcomes of loadVectorsFromFile.  "started" stands for a spawned
\* worker.  _index->dimensions() is read without a null test: on a reset
\* pointer the process dies or a worker starts on a garbage count.
loadVectorsResults(path, file) ==
  IF loadBusy THEN {"busy"}
  ELSE IF normalizePath(path) = <<"security">> THEN {"security"}
  ELSE IF ~file.exists THEN {"io"}
  ELSE IF fileSize(file) <= 0 THEN {"ok"}
  ELSE IF ~index.alive THEN {"crash", "garbage"}
  ELSE {"started"}

LoadVectorsFromFile(path, file) ==
  /\ ~crashed
  /\ \E r \in loadVectorsResults(path, file) :
       IF r \in {"started", "garbage"}
         THEN \E n \in 0..Len(file.vs) :
                /\ r = "started" => n = fileSize(file) \div (Dims * 4)
                /\ isIndexing' = TRUE
                /\ cur' = 0
                /\ total' = n
                /\ workers' = Append(workers,
                     [pc |-> "read", kind |-> "load", keys |-> <<>>,
                      vectors |-> SubSeq(file.vs, 1, n), n |-> n, i |-> 0,
                      caller |-> [keys |-> <<>>, vectors |-> <<>>]])
                /\ aux' = Started("load", index, n)
                /\ deref' = IF r = "garbage" THEN deref \cup {"host"} ELSE deref
                /\ UNCHANGED crashed
         ELSE /\ crashed' = (r = "crash")
              /\ deref' = IF r = "crash" THEN deref \cup {"host"} ELSE deref
              /\ aux' = Moved(aux)
              /\ UNCHANGED <<isIndexing, cur, total, workers>>
  /\ UNCHANGED <<index, lastResult>>

\* ------------------------------------------------- accesses with no lock
\* What addBatch reads of _index before it takes the mutex: the pointer, in
\* its first test, and dimensions() once the deleted-state gate, the busy
\* gate and getRawVector are behind it.
addBatchUnlocked(keys, arg) ==
  {"_index"} \cup
    (IF index.alive /\ ~addBatchBusy /\ getRawVector(arg) = "ok"
       THEN {"dimensions"}
       ELSE {})

\* What loadVectorsFromFile reads of _index (it never takes the mutex):
\* dimensions(), once the busy gate, the path and the file tests are behind
\* it.
loadVectorsUnlocked(path, file) ==
  IF loadVectorsResults(path, file) \cap {"started", "crash", "garbage"} # {}
    THEN {"dimensions"}
    ELSE {}

\* ------------------------------------------------------------ createIndex
\* The first argument of createIndex.
DimsArgs == {0, Dims}

\* The quantization and metric properties of the options argument: absent,
\* each string the code names, and one it does not.
Quantizations == {"absent", "f32", "i8", "f16"}

Metrics == {"absent", "cos", "l2sq", "ip", "hamming", "jaccard", "manhattan"}

\* createIndex(dimensions, options) given a number and strings: the error it
\* throws ("" for none) and the index it builds.
createIndex(dims, quantization, metric) ==
  [error     |-> "",
   created   |-> TRUE,
   dims      |-> dims,
   quantized |-> (quantization = "i8"),
   metric    |-> IF metric \in {"l2sq", "ip", "hamming", "jaccard"} THEN metric ELSE "cos",
   index     |-> [alive |-> TRUE, vecs |-> <<>>, cap |-> InitialCapacity]]

\* ----------------------------------------------------------- jaccard_f32
\* Float components are written in tenths: 0.0, 0.5, 0.6 and 1.0.
Tenths == {0, 5, 6, 10}

\* The threshold 0.5f of the kernel, in tenths.
Half == 5

FloatVecs == [1..Dims -> Tenths]

\* The loop of jaccard_f32 over the components i..n: the two counters.
RECURSIVE jaccardLoop(_, _, _, _, _, _)
jaccardLoop(a, b, n, i, intersection, union_count) ==
  IF i > n THEN [intersection |-> intersection, union_count |-> union_count]
  ELSE LET in_a == a[i] > Half
           in_b == b[i] > Half
       IN  jaccardLoop(a, b, n, i + 1,
                       IF in_a /\ in_b THEN intersection + 1 ELSE intersection,
                       IF in_a \/ in_b THEN union_count + 1 ELSE union_count)

\* jaccard_f32(a, b, n): the value returned, as the fraction num / den.
jaccard_f32(a, b, n) ==
  LET c == jaccardLoop(a, b, n, 1, 0, 0)
  IN  IF c.union_count = 0
        THEN [num |-> 0, den |-> 1]
        ELSE [num |-> c.union_count - c.intersection, den |-> c.union_count]

\* The distance function the constructor gives the index: the custom kernel
\* for jaccard on f32 scalars, else the library's own for the metric and
\* scalar kind.
kernelOf(metric_kind, quantized) ==
  IF metric_kind = "jaccard" /\ ~quantized
    THEN "jaccard_f32"
    ELSE <<"builtin", metric_kind, IF quantized THEN "i8" ELSE "f32">>


\* -------------------------------------------- wrapper class (TypeScript)
\* VectorIndex keeps the host object private.  Its addBatch and
\* loadVectorsFromFile make the native call and return the promise of
\* _waitForOperation(), which tests isIndexing every 50 ms and, once it reads
\* false, settles with what getLastResult() returns or raises.
MaxPending == 2

\* return this._index.getLastResult()
waited(task, n) ==
  [outcome |-> IF getLastResultResult = "ok" THEN "resolved" ELSE "rejected",
   task |-> task, n |-> n,
   value |-> IF getLastResultResult = "ok" THEN getLastResultValue ELSE 0]

\* the native call threw
thrown == [outcome |-> "rejected", task |-> FALSE, n |-> 0, value |-> 0]

\* A native call that throws rejects the promise at once.  One that starts a
\* task leaves isIndexing true, so the promise waits.
WrapAddBatch(keys, arg) ==
  /\ Len(promises.pending) < MaxPending
  /\ AddBatch(keys, arg)
  /\ promises' = IF addBatchResult(keys, arg) = "ok"
                   THEN [promises EXCEPT !.pending = Append(@, [n |-> batchCount(arg)])]
                   ELSE [promises EXCEPT !.settled = thrown]

\* For an empty file the native call returns with no task started and
\* isIndexing false: getLastResult() is called in the same turn.
WrapLoadVectorsFromFile(path, file) ==
  /\ Len(promises.pending) < MaxPending
  /\ IF loadVectorsResults(path, file) = {"ok"}
       THEN /\ GetLastResult
            /\ promises' = [promises EXCEPT !.settled = waited(FALSE, 0)]
       ELSE /\ LoadVectorsFromFile(path, file)
            /\ promises' =
                 IF Len(workers') > Len(workers)
                   THEN [promises EXCEPT !.pending = Append(@, [n |-> total'])]
                 ELSE IF crashed' THEN promises
                 ELSE [promises EXCEPT !.settled = thrown]

\* The timer of a pending promise fires and isIndexing reads false.
Poll(p) ==
  /\ ~isIndexing
  /\ GetLastResult
  /\ promises' = [pending |-> RemoveAt(promises.pending, p),
                  settled |-> waited(TRUE, promises.pending[p].n)]

\* ------------------------------------------------------------ the system
WorkerStep ==
  \/ \E w \in 1..Len(workers) : BatchItem(w)
  \/ \E w \in 1..Len(workers) : BatchFinish(w)
  \/ \E w \in 1..Len(workers) : BatchClear(w)
  \/ \E w \in 1..Len(workers) : LoadRead(w)
  \/ \E w \in 1..Len(workers) : LoadReserve(w)
  \/ \E w \in 1..Len(workers) : LoadItem(w)
  \/ \E w \in 1..Len(workers) : LoadFinish(w)
  \/ \E w \in 1..Len(workers) : LoadCaught(w)
  \/ \E w \in 1..Len(workers) : LoadClear(w)

HostStep ==
  \/ GetDimensions
  \/ GetCount
  \/ GetMemoryUsage
  \/ GetIsa
  \/ GetIsIndexing
  \/ GetIndexingProgress
  \/ GetLastResult /\ UNCHANGED promises
  \/ Delete
  \/ \E call \in PointCalls : Add(call.key, call.arg)
  \/ \E key \in Keys : Remove(key)
  \/ \E call \in PointCalls : Update(call.key, call.arg)
  \/ \E arg \in VecArgs : Search(arg)
  \/ \E key \in Keys : GetItemVector(key)
  \/ \E path \in Paths : Save(path)
  \/ \E call \in IndexLoadCalls : Load(call.path, call.file)
  \/ \E call \in BatchCalls : AddBatch(call.keys, call.arg) /\ UNCHANGED promises
  \/ \E w \in 1..Len(workers) : CallerWrites(w)
  \/ \E call \in LoadCalls :
       LoadVectorsFromFile(call.path, call.file) /\ UNCHANGED promises

Next == WorkerStep \/ HostStep

Spec == Init /\ [][Next]_vars

\* The operating system schedules a runnable thread: the worker keeps
\* making steps while it has one to make.
FairSpec == Spec /\ WF_vars(WorkerStep)

\* The program that holds a VectorIndex: its calls go through the wrapper.
WrapperStep ==
  \/ \E call \in BatchCalls : WrapAddBatch(call.keys, call.arg)
  \/ \E call \in LoadCalls : WrapLoadVectorsFromFile(call.path, call.file)
  \/ \E p \in 1..Len(promises.pending) : Poll(p)
  \/ Delete

WrapperNext == WorkerStep \/ WrapperStep

WrapperSpec == Init /\ [][WrapperNext]_vars

\* ============================================================ properties
\* ---------------------------------------------------------------- C1
\* C1 as stated: while a started task has not finished there is one worker
\* at most, and every addBatch and every loadVectorsFromFile call fails
\* with the busy error (in runs that never dereferenced the reset pointer).
C1_BusyWhileRunning ==
  /\ Len(workers) <= 1
  /\ (Running /\ deref = {}) =>
       /\ \A call \in BatchCalls : addBatchResult(call.keys, call.arg) = "busy"
       /\ \A call \in LoadCalls : loadVectorsResults(call.path, call.file) = {"busy"}

\* C1, amended: there is one worker at most, and while it runs no call
\* starts a second one: loadVectorsFromFile fails with the busy error, and
\* addBatch fails with the busy error on a live index and with the
\* deleted-state error once delete() has been called.
C1_OneTaskAtATime ==
  /\ Len(workers) <= 1
  /\ Running =>
       /\ \A call \in BatchCalls :
            addBatchResult(call.keys, call.arg) = IF index.alive THEN "busy" ELSE "deleted"
       /\ \A call \in LoadCalls : loadVectorsResults(call.path, call.file) = {"busy"}

\* A batch is in its loop on an index that delete() has reset: an addBatch
\* call made now fails with the deleted-state error.
C1_Witness ==
  /\ Running
  /\ workers[1].kind = "batch"
  /\ workers[1].pc = "loop"
  /\ ~index.alive
  /\ \A call \in BatchCalls : addBatchResult(call.keys, call.arg) = "deleted"

\* ---------------------------------------------------------------- C2
\* C2: a worker never dereferences _index after delete() has reset it.
C2_WorkerNeverTouchesReleased == "worker" \notin deref

\* ---------------------------------------------------------------- C3
\* C3: once a task has been started, _isIndexing becomes false again
\* whenever the worker is scheduled fairly (runs in which the reset pointer
\* was dereferenced, and the process may have died, are left aside).
C3_IsIndexingClears ==
  (isIndexing /\ deref = {}) ~> (~isIndexing \/ deref # {})

\* ---------------------------------------------------------------- C4
\* C4: after delete() every property read and every method fails with the
\* deleted-state error.
C4_DeletedEverywhere ==
  ~index.alive =>
    /\ dimensionsResults = {"deleted"}
    /\ countResult = "deleted"
    /\ memoryUsageResult = "deleted"
    /\ isaResult = "deleted"
    /\ \A call \in PointCalls : addResult(call.key, call.arg) = "deleted"
    /\ \A call \in BatchCalls : addBatchResult(call.keys, call.arg) = "deleted"
    /\ \A key \in Keys : removeResult(key) = "deleted"
    /\ \A call \in PointCalls : updateResult(call.key, call.arg) = "deleted"
    /\ \A arg \in VecArgs : searchResult(arg) = "deleted"
    /\ \A key \in Keys : getItemVectorResult(key) = "deleted"
    /\ \A path \in Paths : saveResult(path) = "deleted"
    /\ \A call \in IndexLoadCalls : loadResult(call.path, call.file) = "deleted"
    /\ \A call \in LoadCalls : loadVectorsResults(call.path, call.file) = {"deleted"}

\* ---------------------------------------------------------------- C5
\* C5: when the thread of a task that delete() interrupted ends, the
\* deleted-state error is what lastResult holds (in runs that never
\* dereferenced the reset pointer).
C5_CancelledTaskRecordsDeleted ==
  [][(Running /\ ~Running' /\ aux.cancelled /\ deref' = {})
        => lastResult'.error = "deleted"]_vars

\* ---------------------------------------------------------------- C6
\* C6: once a batch whose items were all inserted is seen with _isIndexing
\* false, getLastResult() returns the batch's item count and raises nothing.
C6_ResultBeforeFlag ==
  (aux.kind = "batch" /\ ~isIndexing /\ cur = total) =>
    (getLastResultResult = "ok" /\ getLastResultValue = total)

\* A batch of MaxBatch items has ended with every item inserted.
C6_Witness ==
  /\ aux.kind = "batch"
  /\ ~isIndexing
  /\ ~Running
  /\ total = MaxBatch
  /\ cur = total
  /\ getLastResultValue = MaxBatch

\* ---------------------------------------------------------------- C7
\* C7: while _isIndexing is true on a live index, remove and update fail
\* with the busy error.
C7_RemoveUpdateBusy ==
  (isIndexing /\ index.alive) =>
    /\ \A key \in Keys : removeResult(key) = "busy"
    /\ \A call \in PointCalls : updateResult(call.key, call.arg) = "busy"

\* ---------------------------------------------------------------- C8
\* C8: while _isIndexing is true on a live index, save and load fail with
\* the busy error.
C8_SaveLoadBusy ==
  (isIndexing /\ index.alive) =>
    /\ \A path \in Paths : saveResult(path) = "busy"
    /\ \A call \in IndexLoadCalls : loadResult(call.path, call.file) = "busy"

\* ---------------------------------------------------------------- C9
\* The running batch was given pairwise distinct keys, none of them in the
\* index when it started, and no mutator has been called since.
C9_Undisturbed ==
  /\ aux.clean
  /\ aux.kind = "batch"
  /\ Running
  /\ \A i, j \in 1..Len(workers[1].keys) :
       workers[1].keys[i] = workers[1].keys[j] => i = j
  /\ \A j \in 1..Len(workers[1].keys) : workers[1].keys[j] \notin aux.base

\* C9: between two critical sections of such a batch the index holds the
\* keys it started with and the first `current` keys of the batch, each with
\* the vector given for it, and the count the host reads never decreases.
C9_PrefixInserted ==
  /\ [](C9_Undisturbed =>
          /\ cur = workers[1].i
          /\ DOMAIN index.vecs = aux.base \cup {workers[1].keys[j] : j \in 1..cur}
          /\ \A j \in 1..cur : index.vecs[workers[1].keys[j]] = workers[1].vectors[j])
  /\ [][(C9_Undisturbed /\ C9_Undisturbed') => countValue' >= countValue]_vars

\* Half-way through a batch of MaxBatch new keys.
C9_Witness ==
  /\ C9_Undisturbed
  /\ workers[1].n = MaxBatch
  /\ cur = 1
  /\ countValue = 1

\* --------------------------------------------------------------- C10
\* C10 as stated: while the worker of an addBatch runs, _isIndexing is true
\* and total is the batch's item count, and the first read the host makes
\* after addBatch returned finds _isIndexing true.
C10_FirstReadSeesIndexing ==
  /\ \A w \in 1..Len(workers) :
       workers[w].kind = "batch" => (isIndexing /\ total = workers[w].n)
  /\ (aux.fresh /\ aux.kind = "batch") => isIndexing

\* C10, amended: while the worker of an addBatch runs, _isIndexing is true
\* and total is the batch's item count; the first read the host makes after
\* addBatch returned finds total at that count, and finds _isIndexing true
\* exactly when the worker has not ended yet.
C10_IndexingWhileWorkerRuns ==
  /\ \A w \in 1..Len(workers) :
       workers[w].kind = "batch" => (isIndexing /\ total = workers[w].n)
  /\ (aux.fresh /\ aux.kind = "batch") =>
       (total = aux.n /\ (isIndexing <=> Running))

\* The worker of a batch of MaxBatch items has ended before the host made
\* its first call.
C10_Witness ==
  /\ aux.fresh
  /\ aux.kind = "batch"
  /\ ~isIndexing
  /\ total = MaxBatch

\* --------------------------------------------------------------- C11
\* C11: a call of addBatch or loadVectorsFromFile that is rejected with the
\* busy error changes neither the index, nor _isIndexing, nor the progress
\* counters, nor lastResult, and leaves the running worker where it was: a
\* step that changes one of them is no such call.
C11_BusyRejectionChangesNothing ==
  [][\/ UNCHANGED <<index, isIndexing, cur, total, lastResult, workers>>
     \/ /\ \A call \in BatchCalls :
             addBatchResult(call.keys, call.arg) = "busy"
               => ~AddBatch(call.keys, call.arg)
        /\ \A call \in LoadCalls :
             loadVectorsResults(call.path, call.file) = {"busy"}
               => ~LoadVectorsFromFile(call.path, call.file)]_vars

\* A batch is half-way, the host has made calls since it started, none of
\* them a mutator, and every start call made now is rejected as busy.
C11_Witness ==
  /\ Running
  /\ workers[1].kind = "batch"
  /\ cur = 1
  /\ total = MaxBatch
  /\ index.alive
  /\ ~aux.fresh
  /\ aux.clean
  /\ \A call \in BatchCalls : addBatchResult(call.keys, call.arg) = "busy"
  /\ \A call \in LoadCalls : loadVectorsResults(call.path, call.file) = {"busy"}

\* --------------------------------------------------------------- C12
\* C12: count is the number of adds that succeeded minus the number of
\* removes that succeeded: every add that succeeds raises count by one and
\* every remove that succeeds lowers it by one.
C12_CountIsAddsMinusRemoves ==
  [][/\ \A call \in PointCalls :
          (addResult(call.key, call.arg) = "ok" /\ Add(call.key, call.arg))
            => countValue' = countValue + 1
     /\ \A key \in Keys :
          (removeResult(key) = "ok" /\ Remove(key))
            => countValue' = countValue - 1]_vars

\* --------------------------------------------------------------- C13
\* C13: whenever search is given allowedKeys, as an array or as a typed
\* array, every key it returns is one of them.
C13_ResultsWithinAllowedKeys ==
  index.alive =>
    \A arg \in GoodArgs, count \in Counts, filter \in Filters :
      filter.form # "none" =>
        \A r \in searchValues(arg, count, filter) :
          \A i \in DOMAIN r : r[i] \in filter.keys

\* --------------------------------------------------------------- C14
\* The vector arguments whose address is not a multiple of 4.
C14_Misaligned(arg) == arg.buf = "misaligned"

C15_WrongLength(arg) == getRawVector(arg) = "ok" /\ arg.len # Dims

\* C15: on a live index add, update and search given such a vector fail
\* with the dimension error, and the call changes neither the stored
\* vectors, nor the count, nor the capacity.
C15_WrongDimensionRejected ==
  /\ [](index.alive =>
          /\ \A call \in PointCalls :
               C15_WrongLength(call.arg) =>
                 /\ addResult(call.key, call.arg) = "dimension"
                 /\ updateResult(call.key, call.arg) = "dimension"
          /\ \A arg \in VecArgs : C15_WrongLength(arg) => searchResult(arg) = "dimension")
  /\ [][\/ UNCHANGED index
        \/ /\ \A call \in PointCalls :
                C15_WrongLength(call.arg) =>
                  (~Add(call.key, call.arg) /\ ~Update(call.key, call.arg))
           /\ \A arg \in VecArgs : C15_WrongLength(arg) => ~Search(arg)]_vars

\* A full index (count = capacity) holding the key of the rejected call: an
\* add would double the capacity and an update would remove the key.
C15_Witness ==
  /\ index.alive
  /\ size(index) >= index.cap
  /\ \E call \in PointCalls :
       /\ C15_WrongLength(call.arg)
       /\ contains(index, call.key)
       /\ addResult(call.key, call.arg) = "dimension"
       /\ updateResult(call.key, call.arg) = "dimension"
       /\ searchResult(call.arg) = "dimension"

\* --------------------------------------------------------------- C16
\* C16: on a live index with no task running, addBatch fails with the
\* buffer error whenever the vectors argument does not hold exactly
\* Len(keys) * Dims elements.
C16_BatchMismatchRejected ==
  (index.alive /\ ~isIndexing) =>
    \A call \in BatchCalls :
      (getRawVector(call.arg) = "ok" /\ Len(call.keys) * Dims # call.arg.len) =>
        addBatchResult(call.keys, call.arg) = "buffer"

\* --------------------------------------------------------------- C17
\* C17: on a live index with no task running, loadVectorsFromFile of a file
\* whose size is not a multiple of Dims * 4 bytes fails with the format
\* error.
C17_PartialVectorRejected ==
  (index.alive /\ ~isIndexing) =>
    \A call \in LoadCalls :
      (/\ normalizePath(call.path) # <<"security">>
       /\ call.file.exists
       /\ fileSize(call.file) % (Dims * 4) # 0) =>
        loadVectorsResults(call.path, call.file) = {"format"}

\* --------------------------------------------------------------- C18
\* The path still holds ".." once a leading file:// is taken off.
C18_Traversal(path) ==
  \E i \in 1..Len(path) : hasDotDot(path[i]) /\ ~(i = 1 /\ path[i] = "file://")

C19_VectorGate(arg) ==
  IF ~index.alive THEN "deleted"
  ELSE IF arg.buf # "ok" THEN "buffer"
  ELSE IF arg.len # Dims THEN "dimension"
  ELSE "ok"

\* The first gate that fails, taken in the order deleted-state, path, for a
\* call that passes a path.
C19_PathGate(path) ==
  IF ~index.alive THEN "deleted"
  ELSE IF C18_Traversal(path) THEN "security"
  ELSE "ok"

\* C19: add, update, search, save and load report the first gate that
\* fails in the order deleted-state, busy, path, buffer, dimension, key: a
\* malformed vector or a ".." path given to a deleted index is answered
\* with the deleted-state error.
C19_GatesInFixedOrder ==
  /\ \A call \in PointCalls :
       /\ C19_VectorGate(call.arg) # "ok" =>
            /\ addResult(call.key, call.arg) = C19_VectorGate(call.arg)
            /\ updateResult(call.key, call.arg) = C19_VectorGate(call.arg)
  /\ \A arg \in VecArgs :
       C19_VectorGate(arg) # "ok" => searchResult(arg) = C19_VectorGate(arg)
  /\ \A path \in Paths :
       C19_PathGate(path) # "ok" =>
         /\ saveResult(path) = C19_PathGate(path)
         /\ \A file \in IndexFiles : loadResult(path, file) = C19_PathGate(path)

\* --------------------------------------------------------------- C20
\* C20: whenever it is called, createIndex throws the config error and
\* builds no index when options.quantization is a string other than "f32"
\* and "i8", when
\* options.metric is a string other than "cos", "l2sq", "ip", "hamming" and
\* "jaccard", or when dimensions is 0.
C20_BadConfigRejected ==
  [](\A dims \in DimsArgs, quantization \in Quantizations, metric \in Metrics :
       (\/ quantization \notin {"absent", "f32", "i8"}
        \/ metric \notin {"absent", "cos", "l2sq", "ip", "hamming", "jaccard"}
        \/ dims = 0) =>
         /\ createIndex(dims, quantization, metric).error = "config"
         /\ ~createIndex(dims, quantization, metric).created)

\* --------------------------------------------------------------- C21
\* C21: remove(key) of a key that is not live fails with the key-missing
\* error, and the stored vectors and count are as before.
C21_RemoveMissingFails ==
  \A key \in Keys :
    (index.alive /\ ~contains(index, key)) =>
      /\ removeResult(key) = "key_missing"
      /\ indexRemove(index, key).vecs = index.vecs

\* --------------------------------------------------------------- C22
\* C22: on a live index, add(key, v) with a well-formed vector fails with
\* the error of the refused insertion exactly when the key is live, and
\* such a call leaves count and what getItemVector returns for every key
\* as they were.
C22_DuplicateAddRejected ==
  /\ [](index.alive =>
          \A call \in PointCalls :
            call.arg \in GoodArgs =>
              (addResult(call.key, call.arg) = "error" <=> contains(index, call.key)))
  /\ [][\/ /\ countValue' = countValue
           /\ \A key \in Keys : getItemVectorValue(key)' = getItemVectorValue(key)
        \/ \A call \in PointCalls :
             (index.alive /\ call.arg \in GoodArgs /\ contains(index, call.key)) =>
               ~Add(call.key, call.arg)]_vars

\* Key 0 is live with vector 1: add(0, vector 2) is refused.
C22_Witness ==
  /\ index.alive
  /\ contains(index, 0)
  /\ index.vecs[0] = 1
  /\ addResult(0, [buf |-> "ok", len |-> Dims, vs |-> <<2>>]) = "error"
  /\ indexAdd(grown(index), 0, 2).vecs = index.vecs

\* --------------------------------------------------------------- C23
\* C23: on a live index update(k, v) with a well-formed vector succeeds
\* whether k is live or absent, a full index included; afterwards
\* getItemVector(k) is v, count is as before for a live k and one larger for
\* an absent one, and a second update(k, v) changes nothing more.
C23_UpdateIsUpsert ==
  index.alive =>
    \A call \in PointCalls :
      call.arg \in GoodArgs =>
        LET once == indexAdd(indexRemove(index, call.key), call.key, call.arg.vs[1])
            twice == indexAdd(indexRemove(once, call.key), call.key, call.arg.vs[1])
        IN  /\ updateResult(call.key, call.arg) = "ok"
            /\ contains(once, call.key)
            /\ once.vecs[call.key] = call.arg.vs[1]
            /\ size(once) = IF contains(index, call.key) THEN size(index) ELSE size(index) + 1
            /\ twice = once

\* --------------------------------------------------------------- C24
\* C24: the error a task ended with is what getLastResult() raises; the call
\* clears it, so the next getLastResult() returns; and only a failing step
\* of a worker stores an error again.
C24_ErrorRaisedOnce ==
  /\ [](/\ lastResult.error \in {"", "add_failed", "exception"}
        /\ lastResult.error # "" => getLastResultResult = lastResult.error)
  /\ [][/\ GetLastResult => getLastResultResult' = "ok"
        /\ (lastResult.error = "" /\ lastResult'.error # "") =>
             \E w \in 1..Len(workers) : BatchItem(w) \/ LoadCaught(w)]_vars

\* A batch of MaxBatch items has ended on a refused insertion (it stored no
\* count) and getLastResult() has raised and cleared its error.
C24_Witness ==
  /\ aux.kind = "batch"
  /\ aux.n = MaxBatch
  /\ ~Running
  /\ ~isIndexing
  /\ lastResult = [count |-> 0, error |-> ""]
  /\ getLastResultResult = "ok"

\* --------------------------------------------------------------- C25
\* C25: no failed step goes unreported.  When the worker of
\* loadVectorsFromFile has been through all its items with no mutator
\* called meanwhile, and one of its keys was live before it started (its
\* insertion was refused), the result it stored carries an error; and an
\* update whose insertion is refused does not report success.
C25_NoFailureSwallowed ==
  /\ \A w \in 1..Len(workers) :
       (/\ workers[w].kind = "load"
        /\ workers[w].pc = "clear"
        /\ workers[w].i = workers[w].n
        /\ aux.kind = "load"
        /\ aux.clean
        /\ deref = {}
        /\ \E key \in 0..(workers[w].n - 1) : key \in aux.base) =>
         lastResult.error # ""
  /\ index.alive =>
       \A call \in PointCalls :
         (call.arg \in GoodArgs /\ ~addOk(indexRemove(index, call.key), call.key)) =>
           updateResult(call.key, call.arg) # "ok"

\* --------------------------------------------------------------- C26
\* C26: when the worker of loadVectorsFromFile has stored its result for a
\* file of N vectors (no mutator called since the start), every key i < N
\* is live and holds the i-th vector of the file, and lastResult.count is N
\* and is the number of vectors the task inserted.
C26_FileVectorsLoaded ==
  \A w \in 1..Len(workers) :
    (/\ workers[w].kind = "load"
     /\ workers[w].pc = "clear"
     /\ workers[w].i = workers[w].n
     /\ aux.kind = "load"
     /\ aux.clean
     /\ deref = {}) =>
      /\ \A i \in 0..(workers[w].n - 1) :
           /\ contains(index, i)
           /\ index.vecs[i] = workers[w].vectors[i + 1]
      /\ lastResult.count = workers[w].n
      /\ lastResult.count = size(index) - Cardinality(aux.base)

\* --------------------------------------------------------------- C27
\* The host program has overwritten the arrays it gave to the running batch.
C27_CallerWrote ==
  /\ Running
  /\ workers[1].kind = "batch"
  /\ workers[1].caller # [keys |-> workers[1].keys, vectors |-> workers[1].vectors]

\* C27: the task owns copies of the keys and vectors addBatch was given.
\* Overwriting the caller's arrays changes neither the copies nor the index,
\* the copies stay as they were made for as long as the task runs, and a
\* batch whose caller has overwritten its arrays has inserted, for each item
\* done, the key and the vector of the copy.
C27_BatchOwnsItsBuffers ==
  /\ []((C9_Undisturbed /\ C27_CallerWrote) =>
          /\ DOMAIN index.vecs = aux.base \cup {workers[1].keys[j] : j \in 1..cur}
          /\ \A j \in 1..cur : index.vecs[workers[1].keys[j]] = workers[1].vectors[j])
  /\ [][/\ (Running /\ Running') =>
             /\ workers'[1].keys = workers[1].keys
             /\ workers'[1].vectors = workers[1].vectors
        /\ (C27_CallerWrote' /\ ~C27_CallerWrote) => UNCHANGED index]_vars

\* A batch of MaxBatch new keys has inserted them all after its caller
\* overwrote the arrays.
C27_Witness ==
  /\ C9_Undisturbed
  /\ C27_CallerWrote
  /\ workers[1].n = MaxBatch
  /\ cur = MaxBatch
  /\ \A j \in 1..MaxBatch :
       /\ index.vecs[workers[1].keys[j]] = workers[1].vectors[j]
       /\ workers[1].caller.vectors[j] # workers[1].vectors[j]

C30_DeleteIdempotent ==
  /\ [](/\ deleteResult = "ok"
        /\ ~crashed => ENABLED Delete)
  /\ [][/\ Delete => (index' = NullIndex /\ crashed' = crashed)
        /\ (Delete /\ ~index.alive) =>
             UNCHANGED <<index, isIndexing, cur, total, lastResult, workers,
                         crashed, deref>>]_vars

\* delete() has been called while a worker is alive, and nothing has
\* dereferenced the reset pointer: the next call is a second delete().
C30_Witness ==
  /\ ~index.alive
  /\ Running
  /\ ~crashed
  /\ deref = {}
  /\ ENABLED Delete

\* --------------------------------------------------------------- C31
\* The sets of the claim: the components above one half.
C31_Above(a) == {i \in 1..Dims : a[i] > Half}

\* C31: jaccard_f32(a, b) is 1 - |A n B| / |A u B| (0 when both sets are
\* empty), is symmetric, and is 0 for a = b; and every index created with
\* metric "jaccard", on f32 or on i8 scalars, measures with this kernel.
C31_JaccardKernelEverywhere ==
  [](/\ \A a, b \in FloatVecs :
          LET A == C31_Above(a)
              B == C31_Above(b)
              d == jaccard_f32(a, b, Dims)
          IN  /\ d.den > 0
              /\ IF A \cup B = {}
                   THEN d.num = 0
                   ELSE d.num * Cardinality(A \cup B)
                          = (Cardinality(A \cup B) - Cardinality(A \cap B)) * d.den
              /\ d = jaccard_f32(b, a, Dims)
              /\ a = b => d.num = 0
     /\ \A quantization \in {"absent", "f32", "i8"} :
          LET made == createIndex(Dims, quantization, "jaccard")
          IN  kernelOf(made.metric, made.quantized) = "jaccard_f32")

\* --------------------------------------------------------------- C32
\* C32: no call reads _index without the mutex while a worker still has a
\* critical section on the index ahead of it.  (Every other access of the
\* host and every access of the worker is made inside a critical section,
\* which is one step here.)
C32_NoUnlockedAccessBesideWorker ==
  InLoop =>
    /\ \A call \in BatchCalls : addBatchUnlocked(call.keys, call.arg) = {}
    /\ \A call \in LoadCalls : loadVectorsUnlocked(call.path, call.file) = {}

\* --------------------------------------------------------------- C33
\* C33: a critical section of a worker inserts one item at most, and in
\* every state in which a worker is still in its loop the mutex is free:
\* count, delete, search, add and getItemVector can each be the next step.
\* A call issued during a batch therefore waits for one item at most.
C33_OneItemPerCriticalSection ==
  /\ []((~crashed /\ InLoop) =>
          /\ ENABLED GetCount
          /\ ENABLED Delete
          /\ \A arg \in GoodArgs : ENABLED Search(arg)
          /\ \A call \in PointCalls : ENABLED Add(call.key, call.arg)
          /\ \A key \in Keys : ENABLED GetItemVector(key))
  /\ [][WorkerStep => (cur' <= cur + 1 /\ size(index') <= size(index) + 1)]_vars

\* A batch of MaxBatch items is between its first and its second item, and
\* the host can search or add now.
C33_Witness ==
  /\ Running
  /\ ~crashed
  /\ index.alive
  /\ workers[1].kind = "batch"
  /\ workers[1].pc = "loop"
  /\ workers[1].n = MaxBatch
  /\ workers[1].i = 1
  /\ cur = 1
  /\ \A arg \in GoodArgs : ENABLED Search(arg)
  /\ \A call \in PointCalls : ENABLED Add(call.key, call.arg)

\* --------------------------------------------------------------- C34
\* C34: count never exceeds capacity; and no step but a load() lowers the
\* capacity of a live index or changes it to anything but twice its value
\* (InitialCapacity from 0).
C34_CapacityDoubles ==
  /\ [](index.alive => size(index) <= index.cap)
  /\ [][(/\ index.alive
         /\ index'.alive
         /\ ~(\E call \in IndexLoadCalls : Load(call.path, call.file))) =>
          /\ index'.cap >= index.cap
          /\ index'.cap # index.cap =>
               index'.cap = IF index.cap = 0 THEN InitialCapacity ELSE 2 * index.cap]_vars

\* --------------------------------------------------------------- C35
\* C35: on a live index memoryUsage is
\* count * D * element_size + count * (node_header + connectivity * 8)
\* + base_overhead, with element_size 4 (1 when quantized), node_header 64,
\* connectivity 32 and base_overhead 1 MiB.
C35_MemoryUsageFormula ==
  index.alive =>
    /\ memoryUsageResult = "ok"
    /\ memoryUsageValue =
         countValue * Dims * (IF Quantized THEN 1 ELSE 4)
           + countValue * (64 + 32 * 8)
           + 1024 * 1024

\* --------------------------------------------------------------- C36
\* C36: while a task runs and the host has called nothing but add and
\* update beside it, every insertion finds a free slot: the item the worker
\* is about to insert, the insertion of an add (after its reserve) and the
\* insertion of an update (after its removal).
C36_RoomForEveryInsertion ==
  (aux.addsOnly /\ Running /\ index.alive /\ deref = {}) =>
    /\ \A w \in 1..Len(workers) :
         (workers[w].pc = "loop" /\ workers[w].i < workers[w].n) =>
           size(index) < index.cap
    /\ \A call \in PointCalls :
         call.arg \in GoodArgs =>
           /\ size(grown(index)) < grown(index).cap
           /\ size(indexRemove(index, call.key)) < index.cap

\* --------------------------------------------------------------- C37
\* C37: indexingProgress always has 0 <= current <= total and a percentage
\* of current / total (0 when total is 0) within [0, 1]; current goes down
\* only to 0 and only in the call that starts a task, else it goes up by
\* one; a task that has inserted all of its items leaves current = total.
C37_ProgressWithinBounds ==
  /\ [](LET p == indexingProgressValue
        IN  /\ indexingProgressResult = "ok"
            /\ 0 <= p.current /\ p.current <= p.total
            /\ p.percentage.den > 0
            /\ p.percentage.num * (IF p.total > 0 THEN p.total ELSE 1)
                 = (IF p.total > 0 THEN p.current ELSE 0) * p.percentage.den
            /\ 0 <= p.percentage.num /\ p.percentage.num <= p.percentage.den
            /\ \A w \in 1..Len(workers) :
                 workers[w].i = workers[w].n => p.current = p.total)
  /\ [][cur' # cur =>
          \/ cur' = cur + 1
          \/ cur' = 0 /\ Len(workers') = Len(workers) + 1]_vars

\* A second task has been started after a first one had counted items, and
\* its worker has inserted all of its MaxBatch items.
C37_Witness ==
  /\ Len(workers) = 1
  /\ workers[1].n = MaxBatch
  /\ workers[1].i = MaxBatch
  /\ indexingProgressValue.current = MaxBatch
  /\ indexingProgressValue.percentage = [num |-> MaxBatch, den |-> MaxBatch]
  /\ lastResult.count > 0

\* --------------------------------------------------------------- C38
\* C38: when _isIndexing is false and getLastResult() raises nothing, the
\* count it returns is the number of items the latest task inserted.  Stated
\* for a latest task started by addBatch, whose insertions
\* _currentIndexingCount has counted since the task started.
C38_CountIsWhatWasInserted ==
  (~isIndexing /\ aux.kind = "batch" /\ deref = {} /\ getLastResultResult = "ok") =>
    getLastResultValue = indexingProgressValue.current

\* --------------------------------------------------------------- C39
\* C39: a promise of the wrapper's addBatch or loadVectorsFromFile whose
\* call started a task resolves with the item count of that very operation.
C39_PromiseSettlesWithItsOwnResult ==
  (promises.settled.outcome = "resolved" /\ promises.settled.task /\ deref = {}) =>
    promises.settled.value = promises.settled.n

====
